---- MODULE Spec2Model ----
(***************************************************************************)
(* Model of the Composite (backend-for-frontend) gateway of src/main.py.   *)
(*                                                                         *)
(* The gateway holds no store of its own: its state is the position of     *)
(* each in-flight request handler and of the worker threads a handler      *)
(* starts.  The three backends (User, Listing, Transaction) are modelled   *)
(* by the collections they own and answer every call either from their     *)
(* state ("ok"), with an error status ("err"), or not at all ("fail": a    *)
(* transport error or timeout raised by the HTTP client).                  *)
(***************************************************************************)
EXTENDS Integers, Sequences, FiniteSets, Bags, TLC

VARIABLES users, addresses, items, wallets, txs, req, sent, accounts, ITEM_SELLER_MAP

vars == <<users, addresses, items, wallets, txs, req, sent, accounts, ITEM_SELLER_MAP>>

----------------------------------------------------------------------------
(* Bounds                                                                   *)

NumUsers == 2
NumReqs == 2
NumItems == 2
MaxAddr == 2

Users == 1..NumUsers
Reqs == 1..NumReqs
ItemIds == 1..NumItems

----------------------------------------------------------------------------
(* Identifiers.  A UUID value is a number; its textual renderings are the   *)
(* pairs <<value, form>>.  UUID(text) parses every rendering to the value   *)
(* and str(uuid) prints the canonical lower-case rendering.                 *)

\* an optional value is a sequence of at most one element
None == <<>>
Some(x) == <<x>>
Forms == {"lower", "upper"}
Texts == Users \X Forms

\* uuid.UUID(text): the value a rendering denotes
ParseUUID(t) == t[1]

\* str(uuid): canonical rendering of a value
StrUUID(u) == <<u, "lower">>

\* str(x) of a value that is already a string
StrText(t) == t

Roles == {"user", "admin"}

\* the claims verify_jwt returns for a token the gateway accepts
ClaimSet == [sub : Texts, role : Roles]

\* outcome of one backend call
Outcomes == {"ok", "err", "fail"}

\* the status the gateway reads as "wallet already exists" (main.py:153)
ConflictStatus == 400

\* the error statuses a backend may answer a create with
ErrStatuses == {ConflictStatus, 500}

\* the calls a request has sent to the backends, as a bag of
\* [call, data] records
Call(c, d) == [call |-> c, data |-> d]
Record(log, c) == log (+) SetToBag({c})
HasCall(log, c) == \E x \in BagToSet(log) : x.call = c
CallCount(log, c) ==
    LET S == {x \in BagToSet(log) : x.call = c} IN
    IF S = {} THEN 0 ELSE CopiesIn(CHOOSE x \in S : TRUE, log)

----------------------------------------------------------------------------
(* Transaction backend: wallets                                             *)

\* GET /wallets?user_id=<text>: the wallets of that user, in listing order
WalletsOf(t) == SelectSeq(wallets, LAMBDA w : w.user_id = ParseUUID(t))

\* POST /wallets {user_id}: a second wallet for a user is refused with the
\* conflict status; otherwise the wallet is created with zero balance
NewWallet(t) == [id |-> Len(wallets) + 1, user_id |-> ParseUUID(t), balance |-> 0]

WalletCount(u) == Len(SelectSeq(wallets, LAMBDA w : w.user_id = u))

----------------------------------------------------------------------------
(* ensure_wallet_exists(user_id), main.py:145-160.  One call is a record    *)
(* e = [user_id, pc, ret, faulted, unprovisioned]; each step is one backend  *)
(* call.  A step yields the call's next state, the wallets the backend      *)
(* created and the call that was sent.  unprovisioned is set when the       *)
(* create was answered with the conflict status and the re-query after it   *)
(* found no wallet.                                                         *)

EnsureStart(t) ==
    [user_id |-> t, pc |-> "list", ret |-> None, faulted |-> FALSE,
     unprovisioned |-> FALSE]

EnsureFinish(e, r, out) ==
    [e EXCEPT !.pc = "done", !.ret = r, !.faulted = e.faulted \/ out # "ok"]

\* lines 147-150: list query; a transport error raises, and the body of an
\* error answer is no list of wallets (indexing it raises): both land in
\* the except branch
EnsureListQuery(e, out) ==
    LET ws == WalletsOf(e.user_id) IN
    [e |-> IF out # "ok" THEN EnsureFinish(e, None, out)
           ELSE IF Len(ws) > 0 THEN EnsureFinish(e, Some(ws[1]), out)
           ELSE [e EXCEPT !.pc = "create"],
     created |-> <<>>,
     call |-> Call("GET /wallets", e.user_id)]

\* line 152-157 with the conflict branch of line 153 left out
EnsureCreateNoRecovery(e, out, st) ==
    LET dup == Len(WalletsOf(e.user_id)) > 0 IN
    [e |-> IF out # "ok" \/ dup THEN EnsureFinish(e, None, out)
           ELSE EnsureFinish(e, Some(NewWallet(e.user_id)), out),
     created |-> IF out = "ok" /\ ~dup THEN <<NewWallet(e.user_id)>> ELSE <<>>,
     call |-> Call("POST /wallets", e.user_id)]

\* lines 152-157: create; status 400 goes to the re-query, any other
\* failure raises into the except branch
EnsureCreate(e, out, st) ==
    LET dup == Len(WalletsOf(e.user_id)) > 0
        status == IF out = "err" THEN st
                  ELSE IF dup THEN ConflictStatus ELSE 201
    IN
    [e |-> IF out = "fail" THEN EnsureFinish(e, None, out)
           ELSE IF status = ConflictStatus
                THEN [e EXCEPT !.pc = "requery", !.faulted = e.faulted \/ out # "ok"]
           ELSE IF status >= 400 THEN EnsureFinish(e, None, out)
           ELSE EnsureFinish(e, Some(NewWallet(e.user_id)), out),
     created |-> IF out = "ok" /\ ~dup THEN <<NewWallet(e.user_id)>> ELSE <<>>,
     call |-> Call("POST /wallets", e.user_id)]

\* the re-query sent again when it failed
EnsureRequeryRetrying(e, out) ==
    LET ws == WalletsOf(e.user_id) IN
    [e |-> IF out # "ok" THEN [e EXCEPT !.faulted = TRUE]
           ELSE IF Len(ws) > 0 THEN EnsureFinish(e, Some(ws[1]), out)
           ELSE [EnsureFinish(e, None, out) EXCEPT !.unprovisioned = TRUE],
     created |-> <<>>,
     call |-> Call("GET /wallets", e.user_id)]

\* lines 154-155: re-query after the conflict; an empty list raises
\* IndexError into the except branch
EnsureRequery(e, out) ==
    LET ws == WalletsOf(e.user_id) IN
    [e |-> IF out # "ok" THEN EnsureFinish(e, None, out)
           ELSE IF Len(ws) > 0 THEN EnsureFinish(e, Some(ws[1]), out)
           ELSE [EnsureFinish(e, None, out) EXCEPT !.unprovisioned = TRUE],
     created |-> <<>>,
     call |-> Call("GET /wallets", e.user_id)]

\* the next step of a call that has not returned
EnsureStep(e, out, st) ==
    CASE e.pc = "list" -> EnsureListQuery(e, out)
      [] e.pc = "create" -> EnsureCreate(e, out, st)
      [] e.pc = "requery" -> EnsureRequery(e, out)

----------------------------------------------------------------------------
(* GET /composite/wallet, main.py:273-279                                   *)

\* the handler is entered with the verified claims
WalletRequest(c) ==
    [op |-> "get_my_wallet_balance", claims |-> c, pc |-> "ensure",
     ens |-> EnsureStart(c.sub), status |-> 0, body |-> None]

\* line 276: one backend call of ensure_wallet_exists
WalletEnsureStep(r) ==
    /\ req[r].op = "get_my_wallet_balance"
    /\ req[r].pc = "ensure"
    /\ req[r].ens.pc # "done"
    /\ \E out \in Outcomes, st \in ErrStatuses :
         LET s == EnsureStep(req[r].ens, out, st) IN
         /\ req' = [req EXCEPT ![r].ens = s.e]
         /\ wallets' = wallets \o s.created
         /\ sent' = [sent EXCEPT ![r] = Record(@, s.call)]
    /\ UNCHANGED <<accounts, ITEM_SELLER_MAP, users, addresses, items, txs>>

\* lines 277-279: 500 when no wallet came back, else the wallet
WalletReturn(r) ==
    /\ req[r].op = "get_my_wallet_balance"
    /\ req[r].pc = "ensure"
    /\ req[r].ens.pc = "done"
    /\ req' = [req EXCEPT ![r].pc = "done",
                          ![r].status = IF req[r].ens.ret = None THEN 500 ELSE 200,
                          ![r].body = req[r].ens.ret]
    /\ UNCHANGED <<accounts, ITEM_SELLER_MAP, users, addresses, items, wallets, txs, sent>>

\* main.py:61: the map is empty when the process starts; the User backend's
\* accounts are read by the login alone
GatewayIdle ==
    /\ accounts = <<>>
    /\ ITEM_SELLER_MAP = <<>>

\* any wallets the backend holds at the start: at most one per user
RECURSIVE WalletSeq(_)
WalletSeq(S) ==
    IF S = {} THEN <<>>
    ELSE LET u == CHOOSE x \in S : \A y \in S : x >= y
             rest == WalletSeq(S \ {u})
         IN Append(rest, [id |-> Len(rest) + 1, user_id |-> u, balance |-> 0])

InitWallets == \E S \in SUBSET Users : wallets = WalletSeq(S)

InitWallet ==
    /\ GatewayIdle
    /\ users = Users
    /\ addresses = [u \in Users |-> <<>>]
    /\ items = [i \in ItemIds |-> None]
    /\ txs = <<>>
    /\ InitWallets
    /\ req \in [Reqs -> {WalletRequest(c) : c \in {k \in ClaimSet : k.role = "user"}}]
    /\ sent = [r \in Reqs |-> EmptyBag]

NextWallet == \E r \in Reqs : WalletEnsureStep(r) \/ WalletReturn(r)

SpecWallet == InitWallet /\ [][NextWallet]_vars

----------------------------------------------------------------------------
(* User backend, and get_user_with_address(user_id), main.py:119-143.  One  *)
(* call is a record p = [user_id, pc, user_data, ret, raised, user_failed,   *)
(* addr_failed]; the last two remember that the backend did not answer the  *)
(* user call, or the address call, with success.                            *)

\* GET /users/{id}: the stored user
UserRecord(u) == [id |-> StrUUID(u), role |-> "user"]

\* GET /addresses?user_id=: the user's addresses in listing order
AddressesOf(u) == addresses[u]

ProfileIdle ==
    [user_id |-> 0, pc |-> "idle", user_data |-> None, ret |-> None,
     raised |-> 0, user_failed |-> FALSE, addr_failed |-> FALSE]

ProfileStart(u) == [ProfileIdle EXCEPT !.user_id = u, !.pc = "user"]

\* lines 123-125, 142-143: a failed user call (transport error or error
\* status, 404 for an unknown user included) becomes HTTPException 404
ProfileGetUser(p, out) ==
    [e |-> IF out = "ok" /\ p.user_id \in users
           THEN [p EXCEPT !.pc = "addr",
                          !.user_data = Some(UserRecord(p.user_id))]
           ELSE [p EXCEPT !.pc = "done", !.user_failed = TRUE, !.raised = 404],
     call |-> Call("GET /users/{id}", StrUUID(p.user_id))]

\* lines 128-136: the first address of a 200 answer, else none
MergeAddress(p, out) ==
    IF out = "ok" /\ Len(AddressesOf(p.user_id)) > 0
    THEN Some(AddressesOf(p.user_id)[1])
    ELSE None

\* the address call when its failure is not caught
ProfileGetAddressesStrict(p, out) ==
    [e |-> IF out = "ok"
           THEN [p EXCEPT !.pc = "done", !.addr_failed = out # "ok",
                          !.ret = Some([user |-> p.user_data[1],
                                        address |-> MergeAddress(p, out)])]
           ELSE [p EXCEPT !.pc = "done", !.addr_failed = out # "ok", !.raised = 404],
     call |-> Call("GET /addresses", StrUUID(p.user_id))]

\* lines 128-140: the address call never fails the profile
ProfileGetAddresses(p, out) ==
    [e |-> [p EXCEPT !.pc = "done", !.addr_failed = out # "ok",
                     !.ret = Some([user |-> p.user_data[1],
                                   address |-> MergeAddress(p, out)])],
     call |-> Call("GET /addresses", StrUUID(p.user_id))]

ProfileStep(p, out) ==
    CASE p.pc = "user" -> ProfileGetUser(p, out)
      [] p.pc = "addr" -> ProfileGetAddresses(p, out)

----------------------------------------------------------------------------
(* Listing backend: items.  items[i] is None for an item the backend does   *)
(* not hold, else Some of its JSON record.                                  *)

PriceOf(i) == 100 + i

ItemRecord(i, owner) ==
    [id |-> i, owner_user_id |-> owner, name |-> <<"title", i>>, price |-> PriceOf(i)]

\* the states one item can be in at the backend
ItemStates(i) ==
    {None} \cup {Some(ItemRecord(i, o)) : o \in {None} \cup {Some(t) : t \in Texts}}

\* CompositeItem(**item_data): the owner field is read as a UUID
ParseItem(data) ==
    [data EXCEPT !.owner_user_id =
        IF data.owner_user_id = None THEN None
        ELSE Some(ParseUUID(data.owner_user_id[1]))]

----------------------------------------------------------------------------
(* POST /composite/transactions, main.py:484-553                            *)

ItemFetchStart(i) == [item_id |-> i, pc |-> "get", status |-> 0, data |-> None, exc |-> FALSE]

\* lines 496-500: requests.get of the item in a worker thread.  The 5 is
\* passed in the position of params, so the call has no timeout; a requests
\* release that refuses a number as params raises while it prepares the
\* request, which is the outcome "fail" here
ItemFetch(f, out) ==
    [e |-> IF out = "fail" THEN [f EXCEPT !.pc = "done", !.exc = TRUE]
           ELSE IF out = "err" THEN [f EXCEPT !.pc = "done", !.status = 500]
           ELSE IF items[f.item_id] = None THEN [f EXCEPT !.pc = "done", !.status = 404]
           ELSE [f EXCEPT !.pc = "done", !.status = 200, !.data = items[f.item_id]],
     call |-> Call("GET /items/{id}", <<f.item_id>>)]

EnsureIdle == [EnsureStart(<<0, "lower">>) EXCEPT !.pc = "idle"]

\* lines 489-500: the handler starts with both fetches submitted
TxRequest(c, pl) ==
    [op |-> "create_composite_transaction", claims |-> c, payload |-> pl,
     pc |-> "fetch",
     buyer |-> ProfileStart(ParseUUID(c.sub)),
     item_f |-> ItemFetchStart(pl.item_id),
     seller |-> ProfileIdle, wb |-> EnsureIdle, ws |-> EnsureIdle,
     item |-> None, status |-> 0, detail |-> "", unhandled |-> FALSE, body |-> None]

Respond(rq, status, detail) ==
    [rq EXCEPT !.pc = "done", !.status = status, !.detail = detail]

\* an exception no handler catches: the framework answers 500
Unhandled(rq) ==
    [rq EXCEPT !.pc = "done", !.status = 500, !.detail = "Internal Server Error",
               !.unhandled = TRUE]

\* line 515: str(seller_id) == str(buyer_id)
IsSelfPurchase(seller_id, buyer_id) == StrUUID(seller_id) = StrText(buyer_id)

\* line 495: get_user_with_address(UUID(buyer_id)) in a worker thread
TxBuyerStep(r) ==
    /\ req[r].op = "create_composite_transaction"
    /\ req[r].pc = "fetch"
    /\ req[r].buyer.pc \in {"user", "addr"}
    /\ \E out \in Outcomes :
         LET s == ProfileStep(req[r].buyer, out) IN
         /\ req' = [req EXCEPT ![r].buyer = s.e]
         /\ sent' = [sent EXCEPT ![r] = Record(@, s.call)]
    /\ UNCHANGED <<accounts, ITEM_SELLER_MAP, users, addresses, items, wallets, txs>>

\* lines 496-500: the item fetch in a worker thread
TxItemFetch(r) ==
    /\ req[r].op = "create_composite_transaction"
    /\ req[r].pc = "fetch"
    /\ req[r].item_f.pc = "get"
    /\ \E out \in Outcomes :
         LET s == ItemFetch(req[r].item_f, out) IN
         /\ req' = [req EXCEPT ![r].item_f = s.e]
         /\ sent' = [sent EXCEPT ![r] = Record(@, s.call)]
    /\ UNCHANGED <<accounts, ITEM_SELLER_MAP, users, addresses, items, wallets, txs>>

\* the buyer's wallet call submitted with the two fetches, before the checks
\* on the item
JoinFetchWalletFirst(rq) ==
    IF rq.buyer.raised # 0 \/ rq.item_f.exc THEN Unhandled(rq)
    ELSE [Respond(rq, 404, "Item not found") EXCEPT
             !.wb = EnsureStart(StrUUID(ParseUUID(rq.claims.sub)))]

\* lines 502-522: both fetches joined; the checks on the item; the second
\* pool submits the seller profile and the two wallet calls
JoinFetch(rq) ==
    LET buyer_id == rq.claims.sub IN
    IF rq.buyer.raised # 0 THEN Respond(rq, 404, "User not found")
    ELSE IF rq.item_f.exc THEN Unhandled(rq)
    ELSE IF rq.item_f.status # 200 THEN Respond(rq, 404, "Item not found")
    ELSE LET item == ParseItem(rq.item_f.data[1])
             seller_id == item.owner_user_id
         IN
         IF seller_id = None
         THEN Respond(rq, 422, "Item missing owner_user_id")
         ELSE IF IsSelfPurchase(seller_id[1], buyer_id)
         THEN Respond(rq, 400, "Cannot purchase your own item")
         ELSE [rq EXCEPT !.pc = "wallets",
                         !.item = Some(item),
                         !.seller = ProfileStart(seller_id[1]),
                         !.wb = EnsureStart(StrUUID(ParseUUID(buyer_id))),
                         !.ws = EnsureStart(StrUUID(seller_id[1]))]

TxJoinFetch(r) ==
    /\ req[r].op = "create_composite_transaction"
    /\ req[r].pc = "fetch"
    /\ req[r].buyer.pc = "done"
    /\ req[r].item_f.pc = "done"
    /\ req' = [req EXCEPT ![r] = JoinFetch(req[r])]
    /\ UNCHANGED <<accounts, ITEM_SELLER_MAP, users, addresses, items, wallets, txs, sent>>

\* line 520: get_user_with_address(seller_id) in a worker thread
TxSellerStep(r) ==
    /\ req[r].op = "create_composite_transaction"
    /\ req[r].pc = "wallets"
    /\ req[r].seller.pc \in {"user", "addr"}
    /\ \E out \in Outcomes :
         LET s == ProfileStep(req[r].seller, out) IN
         /\ req' = [req EXCEPT ![r].seller = s.e]
         /\ sent' = [sent EXCEPT ![r] = Record(@, s.call)]
    /\ UNCHANGED <<accounts, ITEM_SELLER_MAP, users, addresses, items, wallets, txs>>

\* line 521: ensure_wallet_exists(UUID(buyer_id)) in a worker thread
TxWalletBuyerStep(r) ==
    /\ req[r].op = "create_composite_transaction"
    /\ req[r].pc = "wallets"
    /\ req[r].wb.pc # "done"
    /\ \E out \in Outcomes, st \in ErrStatuses :
         LET s == EnsureStep(req[r].wb, out, st) IN
         /\ req' = [req EXCEPT ![r].wb = s.e]
         /\ wallets' = wallets \o s.created
         /\ sent' = [sent EXCEPT ![r] = Record(@, s.call)]
    /\ UNCHANGED <<accounts, ITEM_SELLER_MAP, users, addresses, items, txs>>

\* line 522: ensure_wallet_exists(seller_id) in a worker thread
TxWalletSellerStep(r) ==
    /\ req[r].op = "create_composite_transaction"
    /\ req[r].pc = "wallets"
    /\ req[r].ws.pc # "done"
    /\ \E out \in Outcomes, st \in ErrStatuses :
         LET s == EnsureStep(req[r].ws, out, st) IN
         /\ req' = [req EXCEPT ![r].ws = s.e]
         /\ wallets' = wallets \o s.created
         /\ sent' = [sent EXCEPT ![r] = Record(@, s.call)]
    /\ UNCHANGED <<accounts, ITEM_SELLER_MAP, users, addresses, items, txs>>

\* the join when a failed seller lookup is not re-raised
SellerFailedIgnored(rq) == FALSE

\* line 524: future_seller.result() re-raises the HTTPException of the
\* seller lookup; lines 525-526 drop what the wallet calls returned
SellerFailed(rq) == rq.seller.raised # 0

\* the price taken from the item whatever the request says
FinalPriceOfItem(rq) == rq.item[1].price

\* line 528
FinalPrice(rq) ==
    IF rq.payload.price_snapshot # None THEN rq.payload.price_snapshot[1]
    ELSE rq.item[1].price

\* the payload with the buyer taken from the request body
\* (models/composite_models.py:217)
TxPayloadClientBuyer(rq) ==
    [buyer_id |-> StrText(rq.payload.buyer_id),
     seller_id |-> StrUUID(rq.item[1].owner_user_id[1]),
     item_id |-> rq.payload.item_id,
     title_snapshot |-> rq.item[1].name,
     price_snapshot |-> FinalPrice(rq)]

\* lines 530-537
TxPayload(rq) ==
    [buyer_id |-> StrText(rq.claims.sub),
     seller_id |-> StrUUID(rq.item[1].owner_user_id[1]),
     item_id |-> rq.payload.item_id,
     title_snapshot |-> rq.item[1].name,
     price_snapshot |-> FinalPrice(rq)]

\* POST /transactions: the backend stores what it is sent
NewTx(data) == [id |-> Len(txs) + 1, status |-> "pending", data |-> data]

\* lines 524-553: the second pool joined (the with block waits for all
\* three workers), then create_transaction_helper and the composed answer
TxSubmit(r) ==
    /\ req[r].op = "create_composite_transaction"
    /\ req[r].pc = "wallets"
    /\ req[r].seller.pc = "done"
    /\ req[r].wb.pc = "done"
    /\ req[r].ws.pc = "done"
    /\ LET rq == req[r] IN
       IF SellerFailed(rq)
       THEN /\ req' = [req EXCEPT ![r] = Respond(rq, 404, "User not found")]
            /\ UNCHANGED <<txs, sent>>
       ELSE \E out \in Outcomes :
            /\ sent' = [sent EXCEPT ![r] = Record(@, Call("POST /transactions", TxPayload(rq)))]
            /\ IF out = "ok"
               THEN /\ txs' = Append(txs, NewTx(TxPayload(rq)))
                    /\ req' = [req EXCEPT ![r] =
                          [Respond(rq, 200, "") EXCEPT !.body =
                              Some([tx |-> NewTx(TxPayload(rq)),
                                    buyer |-> rq.buyer.ret,
                                    seller |-> rq.seller.ret,
                                    item |-> [rq.item[1] EXCEPT !.price = FinalPrice(rq)]])]]
               ELSE /\ txs' = txs
                    /\ req' = [req EXCEPT ![r] = Unhandled(rq)]
    /\ UNCHANGED <<accounts, ITEM_SELLER_MAP, users, addresses, items, wallets>>

\* the request body: CompositeTransactionCreate
TxPayloads ==
    [item_id : ItemIds,
     buyer_id : {StrUUID(u) : u \in Users},
     price_snapshot : {None} \cup {Some(PriceOf(i) - 50) : i \in {1}}]

\* user u has min(u - 1, MaxAddr) addresses, listed newest id last
RECURSIVE AddrSeq(_, _)
AddrSeq(u, n) ==
    IF n = 0 THEN <<>> ELSE Append(AddrSeq(u, n - 1), [id |-> <<u, n>>, user_id |-> StrUUID(u)])

Min(a, b) == IF a < b THEN a ELSE b

InitTx ==
    /\ GatewayIdle
    /\ users = Users
    /\ addresses = [u \in Users |-> AddrSeq(u, Min(u - 1, MaxAddr))]
    /\ \E i \in ItemIds : \E st \in ItemStates(i) :
          items = [j \in ItemIds |-> IF j = i THEN st ELSE None]
    /\ txs = <<>>
    /\ InitWallets
    /\ \E c \in {k \in ClaimSet : k.role = "user"}, pl \in TxPayloads :
          req = [r \in {1} |-> TxRequest(c, pl)]
    /\ sent = [r \in {1} |-> EmptyBag]

NextTx ==
    \E r \in {1} :
       \/ TxBuyerStep(r)
       \/ TxItemFetch(r)
       \/ TxJoinFetch(r)
       \/ TxSellerStep(r)
       \/ TxWalletBuyerStep(r)
       \/ TxWalletSellerStep(r)
       \/ TxSubmit(r)

SpecTx == InitTx /\ [][NextTx]_vars

----------------------------------------------------------------------------
(* DELETE and PATCH /composite/items/{item_id}, main.py:402-456.  Requests  *)
(* of one client session are handled one after the other.                   *)

ItemRequest(op, c, i) ==
    [op |-> op, claims |-> c, item_id |-> i, pc |-> "fetch", item |-> None,
     clean |-> TRUE, status |-> 0, detail |-> "", body |-> None]

\* the requests before r have been answered
Turn(r) == IF r = 1 THEN TRUE ELSE req[r - 1].pc = "done"

\* the fetch when an error status is not raised: the error body is read as
\* the item
FetchItemNoRaise(i, out) ==
    IF out = "fail" THEN None
    ELSE IF out = "ok" /\ items[i] # None THEN items[i]
    ELSE Some(ItemRecord(i, None))

\* lines 411-416 and 439-444: the item's JSON; a transport error and every
\* error status (404 of a missing item included) end in the except branch
FetchItem(i, out) ==
    IF out = "ok" /\ items[i] # None THEN items[i] ELSE None

\* the owner check left out
OwnerMismatchSkipped(item, user_id) == FALSE

\* lines 418 and 446: item.get("owner_user_id") != user_id
OwnerMismatch(item, user_id) == item.owner_user_id # Some(user_id)

\* lines 407-419 (delete) and 435-447 (update): the fetch and the checks
FetchAndCheck(r, op, denied) ==
    /\ req[r].op = op
    /\ req[r].pc = "fetch"
    /\ Turn(r)
    /\ \E out \in Outcomes :
         LET rq == [req[r] EXCEPT !.clean = out = "ok"]
             item == FetchItem(rq.item_id, out)
         IN
         /\ req' = [req EXCEPT ![r] =
               IF item = None THEN Respond(rq, 404, "Item not found")
               ELSE IF OwnerMismatch(item[1], rq.claims.sub)
               THEN Respond([rq EXCEPT !.item = item], 403, denied)
               ELSE [rq EXCEPT !.pc = "mutate", !.item = item]]
         /\ sent' = [sent EXCEPT ![r] = Record(@, Call("GET /items/{id}", <<rq.item_id>>))]
    /\ UNCHANGED <<accounts, ITEM_SELLER_MAP, users, addresses, items, wallets, txs>>

DeleteFetch(r) == FetchAndCheck(r, "delete_my_item", "You can only delete your own items")

UpdateFetch(r) == FetchAndCheck(r, "update_my_item", "You can only update your own items")

\* lines 421-427: DELETE /items/{id}; the backend removes the item it
\* holds and answers 404 for one it does not hold
DeleteSend(r) ==
    /\ req[r].op = "delete_my_item"
    /\ req[r].pc = "mutate"
    /\ \E out \in Outcomes :
         LET rq == [req[r] EXCEPT !.clean = @ /\ out = "ok"]
             held == items[rq.item_id] # None
         IN
         /\ items' = IF out = "ok" THEN [items EXCEPT ![rq.item_id] = None] ELSE items
         /\ req' = [req EXCEPT ![r] =
               IF out = "ok" /\ held THEN Respond(rq, 204, "")
               ELSE Respond(rq, 502, "Failed to delete item")]
         /\ sent' = [sent EXCEPT ![r] = Record(@, Call("DELETE /items/{id}", <<rq.item_id>>))]
    /\ UNCHANGED <<accounts, ITEM_SELLER_MAP, users, addresses, wallets, txs>>

\* the item after the backend applied the PATCH body
Patched(item) == [item EXCEPT !.name = <<"renamed", item.id>>]

\* lines 449-456: PATCH /items/{id} with the client's body
UpdateSend(r) ==
    /\ req[r].op = "update_my_item"
    /\ req[r].pc = "mutate"
    /\ \E out \in Outcomes :
         LET rq == [req[r] EXCEPT !.clean = @ /\ out = "ok"]
             held == items[rq.item_id] # None
         IN
         /\ items' = IF out = "ok" /\ held
                     THEN [items EXCEPT ![rq.item_id] = Some(Patched(@[1]))]
                     ELSE items
         /\ req' = [req EXCEPT ![r] =
               IF out = "ok" /\ held
               THEN [Respond(rq, 200, "") EXCEPT !.body = Some(Patched(items[rq.item_id][1]))]
               ELSE Respond(rq, 502, "Failed to update item")]
         /\ sent' = [sent EXCEPT ![r] = Record(@, Call("PATCH /items/{id}", <<rq.item_id>>))]
    /\ UNCHANGED <<accounts, ITEM_SELLER_MAP, users, addresses, wallets, txs>>

\* the Listing backend holds at most one item, in any state
InitItems ==
    \E i \in ItemIds : \E st \in ItemStates(i) :
       items = [j \in ItemIds |-> IF j = i THEN st ELSE None]

InitBackendsIdle ==
    /\ GatewayIdle
    /\ users = Users
    /\ addresses = [u \in Users |-> <<>>]
    /\ wallets = <<>>
    /\ txs = <<>>

UserClaims == {k \in ClaimSet : k.role = "user"}

\* one delete or update request
InitItem ==
    /\ InitBackendsIdle
    /\ InitItems
    /\ \E op \in {"delete_my_item", "update_my_item"}, c \in UserClaims, i \in ItemIds :
          req = [r \in {1} |-> ItemRequest(op, c, i)]
    /\ sent = [r \in {1} |-> EmptyBag]

NextItem ==
    \E r \in {1} :
       \/ DeleteFetch(r)
       \/ DeleteSend(r)
       \/ UpdateFetch(r)
       \/ UpdateSend(r)

SpecItem == InitItem /\ [][NextItem]_vars

\* the scenario of three delete requests for one item, by any callers
Steps == 1..3

InitDelete ==
    /\ InitBackendsIdle
    /\ InitItems
    /\ \E i \in ItemIds :
          req \in [Steps -> {ItemRequest("delete_my_item", c, i) : c \in UserClaims}]
    /\ sent = [r \in Steps |-> EmptyBag]

NextDelete == \E r \in Steps : DeleteFetch(r) \/ DeleteSend(r)

SpecDelete == InitDelete /\ [][NextDelete]_vars

----------------------------------------------------------------------------
(* POST /composite/transactions/{tx_id}/checkout, main.py:555-599           *)

CheckoutRequest(c, t) ==
    [op |-> "checkout_real_transaction", claims |-> c, tx_id |-> t, pc |-> "fetch",
     tx |-> None, paid |-> FALSE, del_out |-> "", status |-> 0, detail |-> "",
     body |-> None]

\* lines 565-573: the transaction's JSON; every failure of the fetch ends
\* in the except branch
FetchTx(t, out) ==
    IF out = "ok" /\ t \in 1..Len(txs) THEN Some(txs[t]) ELSE None

\* the buyer check left out
BuyerMismatchSkipped(tx, user_id) == FALSE

\* line 575: tx.get("buyer_id") != user_id
BuyerMismatch(tx, user_id) == tx.data.buyer_id # user_id

\* lines 560-579: the fetch and the buyer check
CheckoutFetch(r) ==
    /\ req[r].op = "checkout_real_transaction"
    /\ req[r].pc = "fetch"
    /\ \E out \in Outcomes :
         LET rq == req[r]
             tx == FetchTx(rq.tx_id, out)
         IN
         /\ req' = [req EXCEPT ![r] =
               IF tx = None THEN Respond(rq, 404, "Transaction not found")
               ELSE IF BuyerMismatch(tx[1], rq.claims.sub)
               THEN Respond([rq EXCEPT !.tx = tx], 403, "Only buyer can checkout this transaction")
               ELSE [rq EXCEPT !.pc = "pay", !.tx = tx]]
         /\ sent' = [sent EXCEPT ![r] = Record(@, Call("GET /transactions/{id}", <<rq.tx_id>>))]
    /\ UNCHANGED <<accounts, ITEM_SELLER_MAP, users, addresses, items, wallets, txs>>

\* the transaction as the backend's checkout answers it
Paid(tx) == [tx EXCEPT !.status = "paid"]

\* lines 581-592, 599: the backend checkout; on success the listing delete
\* follows when the transaction names an item (0: it names none), else the
\* checkout result is returned
CheckoutPay(r) ==
    /\ req[r].op = "checkout_real_transaction"
    /\ req[r].pc = "pay"
    /\ \E out \in Outcomes :
         LET rq == req[r]
             ok == out = "ok"
         IN
         /\ txs' = IF ok THEN [txs EXCEPT ![rq.tx_id] = Paid(@)] ELSE txs
         /\ req' = [req EXCEPT ![r] =
               IF ~ok THEN Respond(rq, 502, "Checkout failed")
               ELSE IF rq.tx[1].data.item_id # 0
               THEN [rq EXCEPT !.pc = "cleanup", !.paid = TRUE,
                               !.body = Some(Paid(txs[rq.tx_id]))]
               ELSE [Respond(rq, 200, "") EXCEPT !.paid = TRUE,
                               !.body = Some(Paid(txs[rq.tx_id]))]]
         /\ sent' = [sent EXCEPT ![r] =
               Record(@, Call("POST /transactions/{id}/checkout", <<rq.tx_id>>))]
    /\ UNCHANGED <<accounts, ITEM_SELLER_MAP, users, addresses, items, wallets>>

\* the answer when a failed listing delete fails the checkout
AfterCleanupStrict(rq, out) ==
    IF out = "ok" THEN Respond([rq EXCEPT !.del_out = out], 200, "")
    ELSE [Respond([rq EXCEPT !.del_out = out], 502, "Failed to delete item")
            EXCEPT !.body = None]

\* lines 593-599: the outcome of the delete is printed and dropped; the
\* checkout result is returned
AfterCleanup(rq, out) == Respond([rq EXCEPT !.del_out = out], 200, "")

\* lines 591-599: the best-effort DELETE /items/{item_id}
CheckoutCleanup(r) ==
    /\ req[r].op = "checkout_real_transaction"
    /\ req[r].pc = "cleanup"
    /\ \E out \in Outcomes :
         LET rq == req[r]
             i == rq.tx[1].data.item_id
         IN
         /\ items' = IF out = "ok" THEN [items EXCEPT ![i] = None] ELSE items
         /\ req' = [req EXCEPT ![r] = AfterCleanup(rq, out)]
         /\ sent' = [sent EXCEPT ![r] = Record(@, Call("DELETE /items/{id}", <<i>>))]
    /\ UNCHANGED <<accounts, ITEM_SELLER_MAP, users, addresses, wallets, txs>>

\* the Transaction backend holds one pending transaction, of any buyer, for
\* any item or for none
InitTxs ==
    \E b \in Texts, s \in Users, i \in ItemIds \cup {0} :
       txs = <<[id |-> 1, status |-> "pending",
                data |-> [buyer_id |-> b, seller_id |-> StrUUID(s), item_id |-> i,
                          title_snapshot |-> <<"title", i>>,
                          price_snapshot |-> PriceOf(i)]]>>

InitCheckout ==
    /\ GatewayIdle
    /\ users = Users
    /\ addresses = [u \in Users |-> <<>>]
    /\ wallets = <<>>
    /\ InitItems
    /\ InitTxs
    /\ \E c \in UserClaims, t \in 1..2 :
          req = [r \in {1} |-> CheckoutRequest(c, t)]
    /\ sent = [r \in {1} |-> EmptyBag]

NextCheckout ==
    \E r \in {1} :
       \/ CheckoutFetch(r)
       \/ CheckoutPay(r)
       \/ CheckoutCleanup(r)

SpecCheckout == InitCheckout /\ [][NextCheckout]_vars

----------------------------------------------------------------------------
(* GET /composite/me, main.py:176-181                                       *)

ProfileRequest(c) ==
    [op |-> "get_current_user_profile", claims |-> c, pc |-> "compose",
     prof |-> ProfileStart(ParseUUID(c.sub)), status |-> 0, detail |-> "",
     body |-> None]

\* line 181: one backend call of get_user_with_address
MeProfileStep(r) ==
    /\ req[r].op = "get_current_user_profile"
    /\ req[r].pc = "compose"
    /\ req[r].prof.pc \in {"user", "addr"}
    /\ \E out \in Outcomes :
         LET s == ProfileStep(req[r].prof, out) IN
         /\ req' = [req EXCEPT ![r].prof = s.e]
         /\ sent' = [sent EXCEPT ![r] = Record(@, s.call)]
    /\ UNCHANGED <<accounts, ITEM_SELLER_MAP, users, addresses, items, wallets, txs>>

\* line 181: the profile, or the HTTPException raised by the call
MeReturn(r) ==
    /\ req[r].op = "get_current_user_profile"
    /\ req[r].pc = "compose"
    /\ req[r].prof.pc = "done"
    /\ req' = [req EXCEPT ![r] =
          IF req[r].prof.raised # 0
          THEN Respond(req[r], req[r].prof.raised, "User not found")
          ELSE [Respond(req[r], 200, "") EXCEPT !.body = req[r].prof.ret]]
    /\ UNCHANGED <<accounts, ITEM_SELLER_MAP, users, addresses, items, wallets, txs, sent>>

\* the address lists a user can have: up to MaxAddr addresses, in any order
AddrLists(u) ==
    {<<>>} \cup
    {q \in UNION {[1..n -> {[id |-> <<u, k>>, user_id |-> StrUUID(u)] : k \in 1..MaxAddr}]
                    : n \in 1..MaxAddr} :
        \A a, b \in DOMAIN q : q[a] = q[b] => a = b}

InitProfile ==
    /\ GatewayIdle
    /\ users \in SUBSET Users
    /\ addresses \in [Users -> UNION {AddrLists(u) : u \in Users}]
    /\ \A u \in Users : addresses[u] \in AddrLists(u)
    /\ items = [i \in ItemIds |-> None]
    /\ wallets = <<>>
    /\ txs = <<>>
    /\ \E c \in UserClaims : req = [r \in {1} |-> ProfileRequest(c)]
    /\ sent = [r \in {1} |-> EmptyBag]

NextProfile == \E r \in {1} : MeProfileStep(r) \/ MeReturn(r)

SpecProfile == InitProfile /\ [][NextProfile]_vars

-----------------------------------------------------------------------------
(* Tokens: create_jwt and verify_jwt, main.py:42-44, 82-91                  *)

SECRET_KEY == "YOUR_SECRET_KEY"
TOKEN_EXPIRE_MINUTES == 120

\* the instants at which requests arrive, in minutes
MaxClock == 2
Times == {k * TOKEN_EXPIRE_MINUTES : k \in 0..MaxClock}

\* HS256: the signature binds the signed payload to the signing key
Sign(payload, key) == [over |-> payload, key |-> key]

\* jwt.encode: a well-formed token is the payload and its signature
Encode(payload, key) == <<payload, Sign(payload, key)>>

\* lines 82-85
CreateJwtAnonymous(user_id, role, now) ==
    Encode([sub |-> StrUUID(0), role |-> role,
            exp |-> now + TOKEN_EXPIRE_MINUTES], SECRET_KEY)

CreateJwt(user_id, role, now) ==
    Encode([sub |-> user_id, role |-> role,
            exp |-> now + TOKEN_EXPIRE_MINUTES], SECRET_KEY)

\* the decoding with the signature left unchecked
DecodeRaisesUnsigned(token, now) ==
    IF Len(token) # 2 THEN TRUE
    ELSE token[1].exp <= now

\* jwt.decode raises on a token that is not payload-and-signature, on a
\* signature that is not the key's signature of the payload, and on an
\* expiry that has passed
DecodeRaises(token, now) ==
    IF Len(token) # 2 THEN TRUE
    ELSE \/ token[2] # Sign(token[1], SECRET_KEY)
         \/ token[1].exp <= now

\* lines 87-91: the claims, or None where HTTPException(401) is raised
VerifyJwt(token, now) ==
    IF DecodeRaises(token, now) THEN None
    ELSE Some([sub |-> token[1].sub, role |-> token[1].role])

-----------------------------------------------------------------------------
(* POST /login/google, main.py:326-345                                      *)

Emails == {<<"mail", u>> : u \in Users}

\* urllib.parse.quote of the address, undone by the backend's router
Quote(e) == <<"quoted", e>>
Unquote(q) == q[2]

\* User backend: GET /users/by_email/{email}, exact match
AccountsByEmail(q) ==
    {k \in DOMAIN accounts : accounts[k].email = Unquote(q)}

\* User backend: the stored account as JSON
AccountJson(a) ==
    [id |-> StrUUID(a.id), email |-> a.email, phone |-> a.phone,
     role |-> a.role]

\* User backend: POST /users stores the account under a fresh identifier
NewAccount(data) ==
    [id |-> Len(accounts) + 1, email |-> data.email, phone |-> data.phone,
     role |-> data.role]

\* UserProfileFlat(**json): the identifier is parsed
ParseUser(data) == [data EXCEPT !.id = ParseUUID(data.id)]

\* lines 333-340
NewUserPayload(login) ==
    [email |-> login.email, phone |-> "0000000000", role |-> "user"]

LoginRequest(e, now) ==
    [op |-> "login_with_google", login |-> [email |-> e], now |-> now,
     pc |-> "lookup", res |-> 0, status |-> 0, unhandled |-> FALSE,
     body |-> None]

\* lines 344-345
LoginReturn(rq, user) ==
    [rq EXCEPT !.pc = "done", !.status = 200,
               !.body = Some([user |-> user,
                              jwt |-> CreateJwt(StrUUID(user.id), user.role,
                                                rq.now)])]

\* an exception no handler catches: the framework answers 500
LoginUnhandled(rq) ==
    [rq EXCEPT !.pc = "done", !.status = 500, !.unhandled = TRUE]

\* lines 328-331: only status 200 is read as "the account exists"
LoginLookup(r) ==
    /\ req[r].op = "login_with_google"
    /\ req[r].pc = "lookup"
    /\ \E out \in Outcomes :
        LET rq == req[r]
            q == Quote(rq.login.email)
            found == AccountsByEmail(q)
            status == IF out = "err" THEN 500
                      ELSE IF found = {} THEN 404 ELSE 200
            seen == [rq EXCEPT !.res = status]
        IN  /\ sent' = [sent EXCEPT ![r] =
                            Record(@, Call("GET /users/by_email", q))]
            /\ req' = [req EXCEPT ![r] =
                 IF out = "fail" THEN LoginUnhandled(rq)
                 ELSE IF status = 200
                 THEN LoginReturn(seen,
                        ParseUser(AccountJson(
                            accounts[CHOOSE k \in found : TRUE])))
                 ELSE [seen EXCEPT !.pc = "create"]]
    /\ UNCHANGED <<accounts, ITEM_SELLER_MAP, users, addresses, items,
                   wallets, txs>>

\* lines 332-343: POST /users, raise_for_status uncaught; the backend keeps
\* addresses unique and refuses a second account for one address
LoginCreate(r) ==
    /\ req[r].op = "login_with_google"
    /\ req[r].pc = "create"
    /\ \E out \in Outcomes :
        LET rq == req[r]
            data == NewUserPayload(rq.login)
            stored == out = "ok" /\ AccountsByEmail(Quote(data.email)) = {}
        IN  /\ sent' = [sent EXCEPT ![r] = Record(@, Call("POST /users", data))]
            /\ accounts' = IF stored THEN Append(accounts, NewAccount(data))
                           ELSE accounts
            /\ req' = [req EXCEPT ![r] =
                 IF stored
                 THEN LoginReturn(rq, ParseUser(AccountJson(NewAccount(data))))
                 ELSE LoginUnhandled(rq)]
    /\ UNCHANGED <<ITEM_SELLER_MAP, users, addresses, items, wallets, txs>>

\* the accounts the backend holds at the start: at most one per address
RECURSIVE AccountSeq(_, _)
AccountSeq(S, role) ==
    IF S = {} THEN <<>>
    ELSE LET e == CHOOSE x \in S : \A y \in S : x[2] >= y[2] IN
         Append(AccountSeq(S \ {e}, role),
                [id |-> Cardinality(S), email |-> e, phone |-> "5550100",
                 role |-> role[e]])

InitLogin ==
    /\ users = Users
    /\ addresses = [u \in Users |-> <<>>]
    /\ items = [i \in ItemIds |-> None]
    /\ wallets = <<>>
    /\ txs = <<>>
    /\ ITEM_SELLER_MAP = <<>>
    /\ \E S \in SUBSET Emails : \E role \in [S -> Roles] :
        accounts = AccountSeq(S, role)
    /\ \E now \in Times :
        req \in [Reqs -> {LoginRequest(e, now) : e \in Emails}]
    /\ sent = [r \in Reqs |-> EmptyBag]

NextLogin == \E r \in Reqs : LoginLookup(r) \/ LoginCreate(r)

SpecLogin == InitLogin /\ [][NextLogin]_vars

-----------------------------------------------------------------------------
(* POST /composite/items/create, main.py:352-400                            *)

\* the results of upload_file_to_bucket: the object was stored, the storage
\* library is not installed, or the upload raised
UploadOutcomes == {"stored", "nolib", "raised"}

\* lines 97-117: always a URL, never an exception
UploadFileToBucket(file, out) ==
    [host |-> CASE out = "stored" -> "storage.googleapis.com"
                [] out = "nolib" -> "fake-storage.com"
                [] out = "raised" -> "upload-failed.com",
     name |-> file]

\* the form fields the client sends; file is None when no file is attached
CreateForms ==
    [seller_id : Texts, name : {<<"title", 0>>},
     price : {PriceOf(i) : i \in ItemIds}, file : {None, Some("photo.png")}]

\* lines 352-364
CreateRequest(c, form) ==
    [op |-> "create_item_from_frontend", claims |-> c, form |-> form,
     pc |-> IF form.file = None THEN "post" ELSE "upload",
     real_url |-> None, media_list |-> <<>>, status |-> 0, detail |-> "",
     unhandled |-> FALSE, body |-> None]

\* line 367
CreateUpload(r) ==
    /\ req[r].op = "create_item_from_frontend"
    /\ req[r].pc = "upload"
    /\ \E out \in UploadOutcomes :
        LET rq == req[r] IN
        req' = [req EXCEPT ![r] =
                  [rq EXCEPT !.pc = "media",
                             !.real_url =
                                Some(UploadFileToBucket(rq.form.file[1], out))]]
    /\ UNCHANGED <<accounts, ITEM_SELLER_MAP, users, addresses, items,
                   wallets, txs, sent>>

\* lines 368-382: POST /media; only 201 adds the media to the list, any
\* other status and any exception are printed
MediaPayload(rq) ==
    [url |-> rq.real_url[1], type |-> "image", alt_text |-> rq.form.name,
     is_primary |-> TRUE]

CreateMedia(r) ==
    /\ req[r].op = "create_item_from_frontend"
    /\ req[r].pc = "media"
    /\ \E out \in Outcomes :
        LET rq == req[r]
            data == MediaPayload(rq)
        IN  /\ sent' = [sent EXCEPT ![r] = Record(@, Call("POST /media", data))]
            /\ req' = [req EXCEPT ![r] =
                 [rq EXCEPT !.pc = "post",
                            !.media_list =
                               IF out = "ok"
                               THEN <<[id |-> <<"media", data.url>>]>>
                               ELSE <<>>]]
    /\ UNCHANGED <<accounts, ITEM_SELLER_MAP, users, addresses, items,
                   wallets, txs>>

\* lines 384-393: the owner is the seller_id form field
ListingPayload(rq) ==
    [name |-> rq.form.name, price |-> rq.form.price,
     owner_user_id |-> rq.form.seller_id, media |-> rq.media_list]

\* Listing backend: the identifiers it has not given out
FreeItemIds == {i \in ItemIds : items[i] = None}

\* Listing backend: POST /items stores the item under a fresh identifier
NewItem(data) ==
    [id |-> CHOOSE i \in FreeItemIds : \A j \in FreeItemIds : i <= j,
     owner_user_id |-> Some(data.owner_user_id), name |-> data.name,
     price |-> data.price]

\* lines 395-400: an error status is passed on, a transport error is not
\* caught; ITEM_SELLER_MAP is left as it is
CreatePost(r) ==
    /\ req[r].op = "create_item_from_frontend"
    /\ req[r].pc = "post"
    /\ \E out \in Outcomes :
        LET rq == req[r]
            data == ListingPayload(rq)
            stored == out = "ok" /\ FreeItemIds # {}
        IN  /\ sent' = [sent EXCEPT ![r] = Record(@, Call("POST /items", data))]
            /\ items' = IF stored
                        THEN [items EXCEPT ![NewItem(data).id] = Some(NewItem(data))]
                        ELSE items
            /\ req' = [req EXCEPT ![r] =
                 IF stored
                 THEN [Respond(rq, 200, "") EXCEPT
                          !.body = Some(ParseItem(NewItem(data)))]
                 ELSE IF out = "fail" THEN Unhandled(rq)
                 ELSE Respond(rq, 500, "res.text")]
    /\ UNCHANGED <<accounts, ITEM_SELLER_MAP, users, addresses, wallets, txs>>

\* one create request
InitCreate ==
    /\ InitBackendsIdle
    /\ InitItems
    /\ \E c \in UserClaims, form \in CreateForms :
          req = [r \in {1} |-> CreateRequest(c, form)]
    /\ sent = [r \in {1} |-> EmptyBag]

NextCreate ==
    \E r \in {1} :
       \/ CreateUpload(r)
       \/ CreateMedia(r)
       \/ CreatePost(r)

SpecCreate == InitCreate /\ [][NextCreate]_vars

-----------------------------------------------------------------------------
(* list_items, services/listing_service.py:48-87                            *)

\* GET /items: the items the backend holds, in identifier order
RECURSIVE ItemList(_)
ItemList(S) ==
    IF S = {} THEN <<>>
    ELSE LET i == CHOOSE x \in S : \A y \in S : x >= y IN
         Append(ItemList(S \ {i}), items[i][1])

HeldItems == {i \in ItemIds : items[i] # None}

\* lines 68-71: item_seller_map.get(UUID(data["id"]), None)
MapGet(item_seller_map, id) ==
    IF id \in DOMAIN item_seller_map THEN Some(item_seller_map[id]) ELSE None

\* lines 73-85: the element built for one entry of the array
ListedItem(item_seller_map, data) ==
    [id |-> data.id, seller_id |-> MapGet(item_seller_map, data.id),
     name |-> data.name, price |-> data.price]

ListRequest == [op |-> "list_items", pc |-> "list", ret |-> None, raised |-> FALSE]

\* an entry of the array that lacks the "name" key
BrokenItem(i) == [id |-> i, owner_user_id |-> None, price |-> PriceOf(i)]

\* lines 75-81: data["id"], data["name"], data["price"] raise KeyError on
\* an entry that lacks the key
ItemTranslates(data) == {"id", "name", "price"} \subseteq DOMAIN data

\* the loop leaving out the entries it cannot translate
TranslateItemsSkipping(item_seller_map, arr) ==
    LET good == SelectSeq(arr, ItemTranslates) IN
    Some([k \in DOMAIN good |-> ListedItem(item_seller_map, good[k])])

\* lines 57-87: the loop over the array; an exception in the translation
\* of one entry leaves the function, None here
TranslateItems(item_seller_map, arr) ==
    IF \E k \in DOMAIN arr : ~ItemTranslates(arr[k]) THEN None
    ELSE Some([k \in DOMAIN arr |-> ListedItem(item_seller_map, arr[k])])

\* lines 52-87: a transport error and an error status are raised to the
\* caller; the map is the one the caller passes
ListItems(r) ==
    /\ req[r].op = "list_items"
    /\ req[r].pc = "list"
    /\ \E out \in Outcomes :
        LET arr == ItemList(HeldItems)
            ret == TranslateItems(ITEM_SELLER_MAP, arr)
        IN
        /\ sent' = [sent EXCEPT ![r] = Record(@, Call("GET /items", <<>>))]
        /\ req' = [req EXCEPT ![r] =
             IF out = "ok" /\ ret # None
             THEN [@ EXCEPT !.pc = "done", !.ret = ret]
             ELSE [@ EXCEPT !.pc = "done", !.raised = TRUE]]
    /\ UNCHANGED <<accounts, ITEM_SELLER_MAP, users, addresses, items,
                   wallets, txs>>

(* list_users, services/user_service.py:20-26                               *)

UsersRequest == [op |-> "list_users", pc |-> "list", ret |-> None, raised |-> FALSE]

\* an account the backend holds without the address field
BrokenAccount(a) == [id |-> a.id, phone |-> a.phone, role |-> a.role]

\* GET /users: the accounts as JSON, in the backend's order
UserJson(a) ==
    IF "email" \in DOMAIN a THEN AccountJson(a)
    ELSE [a EXCEPT !.id = StrUUID(a.id)]

\* CompositeUser(**u) raises on an entry that lacks a required field
UserTranslates(data) == {"id", "email", "role"} \subseteq DOMAIN data

\* line 26: the comprehension; an exception in the translation of one entry
\* leaves the function, None here
TranslateUsers(arr) ==
    IF \E k \in DOMAIN arr : ~UserTranslates(arr[k]) THEN None
    ELSE Some([k \in DOMAIN arr |-> ParseUser(arr[k])])

\* lines 22-26
ListUsers(r) ==
    /\ req[r].op = "list_users"
    /\ req[r].pc = "list"
    /\ \E out \in Outcomes :
        LET arr == [k \in DOMAIN accounts |-> UserJson(accounts[k])]
            ret == TranslateUsers(arr)
        IN
        /\ sent' = [sent EXCEPT ![r] = Record(@, Call("GET /users", <<>>))]
        /\ req' = [req EXCEPT ![r] =
             IF out = "ok" /\ ret # None
             THEN [@ EXCEPT !.pc = "done", !.ret = ret]
             ELSE [@ EXCEPT !.pc = "done", !.raised = TRUE]]
    /\ UNCHANGED <<accounts, ITEM_SELLER_MAP, users, addresses, items,
                   wallets, txs>>

\* the accounts of a listing: any of them may lack the address field
BrokenIn(seq, B) ==
    [k \in DOMAIN seq |->
        IF seq[k].email \in B THEN BrokenAccount(seq[k]) ELSE seq[k]]

\* the item-to-seller maps a caller can pass
SellerMaps == UNION {[S -> Users] : S \in SUBSET ItemIds}

\* a listing of items over any backend collection and any map, or a
\* listing of users over any backend collection
InitList ==
    /\ users = Users
    /\ addresses = [u \in Users |-> <<>>]
    /\ wallets = <<>>
    /\ txs = <<>>
    /\ sent = [r \in {1} |-> EmptyBag]
    /\ \/ /\ req = [r \in {1} |-> ListRequest]
          /\ accounts = <<>>
          /\ items \in [ItemIds -> UNION {ItemStates(i) \cup {Some(BrokenItem(i))} :
                                            i \in ItemIds}]
          /\ \A i \in ItemIds :
                items[i] \in ItemStates(i) \cup {Some(BrokenItem(i))}
          /\ ITEM_SELLER_MAP \in SellerMaps
       \/ /\ req = [r \in {1} |-> UsersRequest]
          /\ items = [i \in ItemIds |-> None]
          /\ ITEM_SELLER_MAP = <<>>
          /\ \E S \in SUBSET Emails : \E B \in SUBSET S :
                accounts = BrokenIn(AccountSeq(S, [e \in S |-> "user"]), B)

NextList == \E r \in {1} : ListItems(r) \/ ListUsers(r)

SpecList == InitList /\ [][NextList]_vars

-----------------------------------------------------------------------------
(* Protected routes: Depends(verify_jwt), require_admin, the admin routes,  *)
(* main.py:87-95, 347-350, 458-481                                          *)

\* the payloads create_jwt can have signed
Payloads ==
    [sub : {StrUUID(u) : u \in Users}, role : Roles,
     exp : {t + TOKEN_EXPIRE_MINUTES : t \in Times}]

\* the bearer tokens a client can present: issued ones of any age, ones
\* signed with another key, ones whose role was rewritten after signing, and
\* text that is no token
Tokens ==
    {Encode(p, k) : p \in Payloads, k \in {SECRET_KEY, "another key"}}
    \cup {<<p, Sign([p EXCEPT !.role = "user"], SECRET_KEY)>> :
            p \in {x \in Payloads : x.role = "admin"}}
    \cup {<<"garbage">>}

\* a request to a protected route, before the dependency has run
AuthRequest(op, token, now, i) ==
    [op |-> op, token |-> token, now |-> now, item_id |-> i, pc |-> "auth",
     status |-> 0, detail |-> ""]

AdminRequest(op, c, i) ==
    [op |-> op, claims |-> c, item_id |-> i, pc |-> "gate", status |-> 0,
     detail |-> ""]

AdminOps == {"admin_area", "admin_delete_item"}

\* lines 87-91 as the dependency of a route: 401 before the handler is
\* entered, or the handler entered with the decoded claims
Authenticate(r) ==
    /\ req[r].pc = "auth"
    /\ LET rq == req[r]
           claims == VerifyJwt(rq.token, rq.now)
       IN  req' = [req EXCEPT ![r] =
              IF claims = None
              THEN [rq EXCEPT !.pc = "rejected", !.status = 401,
                              !.detail = "Invalid or expired token"]
              ELSE IF rq.op \in AdminOps
              THEN AdminRequest(rq.op, claims[1], rq.item_id)
              ELSE WalletRequest(claims[1])]
    /\ UNCHANGED <<accounts, ITEM_SELLER_MAP, users, addresses, items,
                   wallets, txs, sent>>

\* the role check left out
RequireAdminRaisesNever(claims) == FALSE

\* lines 93-95: claims.get("role") != "admin"
RequireAdminRaises(claims) == claims.role # "admin"

\* lines 347-350
AdminArea(r) ==
    /\ req[r].op = "admin_area"
    /\ req[r].pc = "gate"
    /\ req' = [req EXCEPT ![r] =
          IF RequireAdminRaises(@.claims)
          THEN Respond(@, 403, "Admin role required")
          ELSE Respond(@, 200, "Admin access granted")]
    /\ UNCHANGED <<accounts, ITEM_SELLER_MAP, users, addresses, items,
                   wallets, txs, sent>>

\* lines 463-473: the role check, then the fetch; 404 for a missing item,
\* 502 for every other failure
AdminDeleteFetch(r) ==
    /\ req[r].op = "admin_delete_item"
    /\ req[r].pc = "gate"
    /\ \E out \in Outcomes :
        LET rq == req[r] IN
        IF RequireAdminRaises(rq.claims)
        THEN /\ req' = [req EXCEPT ![r] = Respond(rq, 403, "Admin role required")]
             /\ sent' = sent
        ELSE /\ req' = [req EXCEPT ![r] =
                  IF out # "ok" THEN Respond(rq, 502, "Failed to fetch item")
                  ELSE IF items[rq.item_id] = None
                  THEN Respond(rq, 404, "Item not found")
                  ELSE [rq EXCEPT !.pc = "delete"]]
             /\ sent' = [sent EXCEPT ![r] =
                          Record(@, Call("GET /items/{id}", <<rq.item_id>>))]
    /\ UNCHANGED <<accounts, ITEM_SELLER_MAP, users, addresses, items,
                   wallets, txs>>

\* lines 475-481: DELETE /items/{id}, with no owner check
AdminDeleteSend(r) ==
    /\ req[r].op = "admin_delete_item"
    /\ req[r].pc = "delete"
    /\ \E out \in Outcomes :
        LET rq == req[r]
            held == items[rq.item_id] # None
        IN
        /\ items' = IF out = "ok" THEN [items EXCEPT ![rq.item_id] = None]
                    ELSE items
        /\ req' = [req EXCEPT ![r] =
              IF out = "ok" /\ held THEN Respond(rq, 204, "")
              ELSE Respond(rq, 502, "Failed to delete item")]
        /\ sent' = [sent EXCEPT ![r] =
                     Record(@, Call("DELETE /items/{id}", <<rq.item_id>>))]
    /\ UNCHANGED <<accounts, ITEM_SELLER_MAP, users, addresses, wallets, txs>>

\* one request to one of three protected routes, with any token at any
\* instant
InitAuth ==
    /\ InitBackendsIdle
    /\ InitItems
    /\ \E now \in Times :
        req \in [{1} ->
                   {AuthRequest(op, token, now, 0) :
                       op \in {"admin_area", "get_my_wallet_balance"},
                       token \in Tokens}
                   \cup {AuthRequest("admin_delete_item", token, now, i) :
                           token \in Tokens, i \in ItemIds}]
    /\ sent = [r \in {1} |-> EmptyBag]

NextAuth ==
    \E r \in {1} :
       \/ Authenticate(r)
       \/ AdminArea(r)
       \/ AdminDeleteFetch(r)
       \/ AdminDeleteSend(r)
       \/ WalletEnsureStep(r)
       \/ WalletReturn(r)

SpecAuth == InitAuth /\ [][NextAuth]_vars

-----------------------------------------------------------------------------
(* POST /composite/wallet/deposit, main.py:309-324                          *)

\* a Decimal: the digits and the number of them after the point, so that
\* 10.10 is [coef |-> 1010, places |-> 2]
Pow10(n) == CASE n = 0 -> 1 [] n = 1 -> 10 [] n = 2 -> 100

\* the amount field of CompositeDeposit
DepositAmounts == {[coef |-> 1010, places |-> 2], [coef |-> 25, places |-> 1]}

\* str(Decimal) dropping the digits after the point
DecStrWhole(d) ==
    [whole |-> d.coef \div Pow10(d.places), frac |-> 0, places |-> 0]

\* line 318: str(payload.amount), the digits before and after the point
DecStr(d) ==
    [whole |-> d.coef \div Pow10(d.places), frac |-> d.coef % Pow10(d.places),
     places |-> d.places]

\* Transaction backend: the amount it reads from the text, in cents
ReadCents(text) == text.whole * 100 + text.frac * Pow10(2 - text.places)

\* Transaction backend: POST /wallets/{id}/deposit adds the amount
Credited(id, cents) == [wallets EXCEPT ![id].balance = @ + cents]

DepositRequest(c, amount) ==
    [op |-> "deposit_money", claims |-> c, payload |-> [amount |-> amount],
     pc |-> "ensure", ens |-> EnsureStart(c.sub), status |-> 0,
     detail |-> "", body |-> None]

\* line 312: one backend call of ensure_wallet_exists
DepositEnsureStep(r) ==
    /\ req[r].op = "deposit_money"
    /\ req[r].pc = "ensure"
    /\ req[r].ens.pc # "done"
    /\ \E out \in Outcomes, st \in ErrStatuses :
         LET s == EnsureStep(req[r].ens, out, st) IN
         /\ req' = [req EXCEPT ![r].ens = s.e]
         /\ wallets' = wallets \o s.created
         /\ sent' = [sent EXCEPT ![r] = Record(@, s.call)]
    /\ UNCHANGED <<accounts, ITEM_SELLER_MAP, users, addresses, items, txs>>

\* lines 313-324: 500 when no wallet came back; else the deposit is posted
\* to the wallet's id, and every failure of it is answered 500
DepositSend(r) ==
    /\ req[r].op = "deposit_money"
    /\ req[r].pc = "ensure"
    /\ req[r].ens.pc = "done"
    /\ \E out \in Outcomes :
        LET rq == req[r]
            wallet == rq.ens.ret
            data == [id |-> wallet[1].id, amount |-> DecStr(rq.payload.amount)]
        IN
        IF wallet = None
        THEN /\ req' = [req EXCEPT ![r] = Respond(rq, 500, "Wallet not found")]
             /\ UNCHANGED <<wallets, sent>>
        ELSE /\ sent' = [sent EXCEPT ![r] =
                          Record(@, Call("POST /wallets/{id}/deposit", data))]
             /\ wallets' = IF out = "ok"
                           THEN Credited(data.id, ReadCents(data.amount))
                           ELSE wallets
             /\ req' = [req EXCEPT ![r] =
                  IF out = "ok"
                  THEN [Respond(rq, 200, "") EXCEPT
                           !.body = Some(Credited(data.id,
                                           ReadCents(data.amount))[data.id])]
                  ELSE Respond(rq, 500, "Deposit failed")]
    /\ UNCHANGED <<accounts, ITEM_SELLER_MAP, users, addresses, items, txs>>

\* the scenario of two deposit requests, by any callers
Deposits == 1..2

InitDeposit ==
    /\ GatewayIdle
    /\ users = Users
    /\ addresses = [u \in Users |-> <<>>]
    /\ items = [i \in ItemIds |-> None]
    /\ txs = <<>>
    /\ InitWallets
    /\ req \in [Deposits ->
                  {DepositRequest(c, a) : c \in UserClaims, a \in DepositAmounts}]
    /\ sent = [r \in Deposits |-> EmptyBag]

NextDeposit == \E r \in Deposits : DepositEnsureStep(r) \/ DepositSend(r)

SpecDeposit == InitDeposit /\ [][NextDeposit]_vars

-----------------------------------------------------------------------------
(* GET /composite/my-transactions, main.py:281-307                          *)

\* the optional query parameters buyer_id and seller_id
Filters == {None} \cup {Some(t) : t \in Texts}

HistoryRequest(c, b, s) ==
    [op |-> "get_my_transactions", claims |-> c, buyer_id |-> b,
     seller_id |-> s, pc |-> "check", status |-> 0, detail |-> "",
     body |-> None]

\* the comparison left out
NamesOtherNever(filter, user_id) == FALSE

\* lines 289 and 291: the parameter is given and is not the subject, as
\* strings
NamesOther(filter, user_id) == filter # None /\ filter[1] # user_id

\* lines 294-299: the parameters given, or the caller as buyer when none is
HistoryParams(rq) ==
    IF rq.buyer_id = None /\ rq.seller_id = None
    THEN [buyer_id |-> Some(rq.claims.sub), seller_id |-> None]
    ELSE [buyer_id |-> rq.buyer_id, seller_id |-> rq.seller_id]

\* Transaction backend: GET /transactions?buyer_id=&seller_id=
Matches(tx, params) ==
    /\ params.buyer_id # None =>
          ParseUUID(tx.data.buyer_id) = ParseUUID(params.buyer_id[1])
    /\ params.seller_id # None =>
          ParseUUID(tx.data.seller_id) = ParseUUID(params.seller_id[1])

\* lines 287-307: the two checks, then the query; a failure of the query is
\* printed and answered with an empty list
HistoryQuery(r) ==
    /\ req[r].op = "get_my_transactions"
    /\ req[r].pc = "check"
    /\ \E out \in Outcomes :
        LET rq == req[r]
            user_id == rq.claims.sub
            params == HistoryParams(rq)
        IN
        IF NamesOther(rq.buyer_id, user_id)
        THEN /\ req' = [req EXCEPT ![r] =
                  Respond(rq, 403, "Cannot view other users' buyer history")]
             /\ sent' = sent
        ELSE IF NamesOther(rq.seller_id, user_id)
        THEN /\ req' = [req EXCEPT ![r] =
                  Respond(rq, 403, "Cannot view other users' seller history")]
             /\ sent' = sent
        ELSE /\ sent' = [sent EXCEPT ![r] =
                          Record(@, Call("GET /transactions", params))]
             /\ req' = [req EXCEPT ![r] =
                  [Respond(rq, 200, "") EXCEPT
                      !.body = Some(IF out = "ok"
                                    THEN SelectSeq(txs,
                                           LAMBDA tx : Matches(tx, params))
                                    ELSE <<>>)]]
    /\ UNCHANGED <<accounts, ITEM_SELLER_MAP, users, addresses, items,
                   wallets, txs>>

\* one history request with any parameters, over one stored transaction
InitHistory ==
    /\ GatewayIdle
    /\ users = Users
    /\ addresses = [u \in Users |-> <<>>]
    /\ items = [i \in ItemIds |-> None]
    /\ wallets = <<>>
    /\ InitTxs
    /\ \E c \in UserClaims, b \in Filters, s \in Filters :
          req = [r \in {1} |-> HistoryRequest(c, b, s)]
    /\ sent = [r \in {1} |-> EmptyBag]

NextHistory == \E r \in {1} : HistoryQuery(r)

SpecHistory == InitHistory /\ [][NextHistory]_vars

----------------------------------------------------------------------------
(* Properties                                                               *)

\* an ensure_wallet_exists call that returned and saw no backend fault
EnsureClean(r) ==
    /\ req[r].op = "get_my_wallet_balance"
    /\ req[r].ens.pc = "done"
    /\ ~req[r].ens.faulted

\* the two calls are for one user, and that user had no wallet: one of the
\* calls found the list empty and sent the create
EnsureRace(r1, r2) ==
    /\ r1 # r2
    /\ EnsureClean(r1) /\ EnsureClean(r2)
    /\ ParseUUID(req[r1].ens.user_id) = ParseUUID(req[r2].ens.user_id)
    /\ HasCall(sent[r1], "POST /wallets") \/ HasCall(sent[r2], "POST /wallets")

ReturnsWalletOf(r, u) ==
    /\ req[r].ens.ret # None
    /\ req[r].ens.ret[1].user_id = u

\* C1: two concurrent ensure_wallet_exists calls for a user without a wallet,
\* answered without faults by a backend that refuses a duplicate create with
\* the conflict status, leave exactly one wallet of that user, and both
\* calls return a wallet of that user.
C1_EnsureWalletIdempotent ==
    \A r1, r2 \in Reqs :
       EnsureRace(r1, r2) =>
          LET u == ParseUUID(req[r1].ens.user_id) IN
          /\ WalletCount(u) = 1
          /\ ReturnsWalletOf(r1, u)
          /\ ReturnsWalletOf(r2, u)

\* both calls found the list empty and sent the create; the loser of the
\* race re-queried
C1_Witness ==
    \E r1, r2 \in Reqs :
       /\ EnsureRace(r1, r2)
       /\ HasCall(sent[r1], "POST /wallets")
       /\ HasCall(sent[r2], "POST /wallets")
       /\ CallCount(sent[r2], "GET /wallets") = 2

IsTx(r) == req[r].op = "create_composite_transaction"

TxSent(r) == {c \in BagToSet(sent[r]) : c.call = "POST /transactions"}

\* C2: when the seller profile lookup of create_composite_transaction
\* fails, no POST /transactions is sent for the request, no transaction is
\* stored, and the operation ends in an error.
C2_SellerFailureSendsNoTx ==
    \A r \in DOMAIN req :
       (IsTx(r) /\ req[r].seller.raised # 0) =>
          /\ TxSent(r) = {}
          /\ txs = <<>>
          /\ req[r].pc = "done" => req[r].status >= 400

\* the seller lookup failed, both wallet calls ran to their end and the
\* request was answered 404
C2_Witness ==
    \E r \in DOMAIN req :
       /\ IsTx(r)
       /\ req[r].seller.raised # 0
       /\ req[r].wb.pc = "done" /\ req[r].ws.pc = "done"
       /\ req[r].pc = "done"
       /\ req[r].status = 404

\* an ensure_wallet_exists call that returned without a wallet
EnsureFailed(e) == e.pc = "done" /\ e.ret = None

\* the fetched item is owned by the user the token's subject denotes
SameUserBuys(r) ==
    /\ IsTx(r)
    /\ req[r].item_f.status = 200
    /\ req[r].item_f.data[1].owner_user_id # None
    /\ ParseUUID(req[r].item_f.data[1].owner_user_id[1]) = ParseUUID(req[r].claims.sub)

\* C3: when ensure_wallet_exists fails for the buyer or for the seller (of
\* a purchase by another user than the seller), the operation aborts with
\* an error and no POST /transactions is sent.
C3_WalletFailureAborts ==
    \A r \in DOMAIN req :
       (/\ IsTx(r)
        /\ ~SameUserBuys(r)
        /\ EnsureFailed(req[r].wb) \/ EnsureFailed(req[r].ws)) =>
          /\ TxSent(r) = {}
          /\ req[r].pc = "done" => req[r].status >= 400

C5_BuyerIsTokenSubject ==
    \A r \in DOMAIN req :
       IsTx(r) =>
          /\ \A c \in TxSent(r) : c.data.buyer_id = req[r].claims.sub
          /\ \A i \in 1..Len(txs) : txs[i].data.buyer_id = req[r].claims.sub

\* a transaction was submitted for a request whose body names another buyer
C5_Witness ==
    \E r \in DOMAIN req :
       /\ IsTx(r)
       /\ TxSent(r) # {}
       /\ Len(txs) = 1
       /\ req[r].payload.buyer_id # req[r].claims.sub

IsItemMutation(r) == req[r].op \in {"delete_my_item", "update_my_item"}

MutationSent(r) ==
    HasCall(sent[r], "DELETE /items/{id}") \/ HasCall(sent[r], "PATCH /items/{id}")

\* C6: delete_my_item and update_my_item send the DELETE or PATCH only
\* after the item was fetched and its owner is the token's subject; for an
\* item of another owner the answer is 403, nothing is sent and the item
\* stays as it was.
C6_MutationOnlyByOwner ==
    \A r \in DOMAIN req :
       IsItemMutation(r) =>
          /\ MutationSent(r) =>
                /\ HasCall(sent[r], "GET /items/{id}")
                /\ req[r].item # None
                /\ req[r].item[1].owner_user_id = Some(req[r].claims.sub)
          /\ (/\ req[r].pc = "done"
              /\ req[r].item # None
              /\ req[r].item[1].owner_user_id # Some(req[r].claims.sub)) =>
                /\ req[r].status = 403
                /\ ~MutationSent(r)
                /\ items[req[r].item_id] = req[r].item

\* a PATCH of an item that another user owns was answered 403
C6_Witness ==
    \E r \in DOMAIN req :
       /\ req[r].op = "update_my_item"
       /\ req[r].pc = "done"
       /\ req[r].item # None
       /\ req[r].item[1].owner_user_id # None
       /\ ParseUUID(req[r].item[1].owner_user_id[1]) # ParseUUID(req[r].claims.sub)
       /\ req[r].status = 403

\* request r of the scenario was answered, with no backend fault
Answered(r) == req[r].pc = "done" /\ req[r].clean

\* the first delete found the item, owned, and its caller is another user
NonOwnerFirst ==
    /\ req[1].op = "delete_my_item"
    /\ Answered(1)
    /\ req[1].item # None
    /\ req[1].item[1].owner_user_id # None
    /\ ParseUUID(req[1].item[1].owner_user_id[1]) # ParseUUID(req[1].claims.sub)

ByOwner(r) == Some(req[r].claims.sub) = req[1].item[1].owner_user_id

\* C7: for an existing item, a delete by a non-owner, then by the owner,
\* then again by the owner is answered 403, then 204 with the item removed
\* at the backend, then 404; the non-owner's attempt leaves the item in
\* place.
C7_DeleteScenario ==
    NonOwnerFirst =>
       /\ req[1].status = 403
       /\ req[2].pc = "fetch" => items[req[1].item_id] = req[1].item
       /\ (Answered(2) /\ ByOwner(2)) =>
             /\ req[2].status = 204
             /\ items[req[1].item_id] = None
             /\ (Answered(3) /\ ByOwner(3)) => req[3].status = 404

\* the three requests of the scenario were answered 403, 204, 404
C7_Witness ==
    /\ NonOwnerFirst
    /\ Answered(2) /\ ByOwner(2)
    /\ Answered(3) /\ ByOwner(3)
    /\ <<req[1].status, req[2].status, req[3].status>> = <<403, 204, 404>>

IsCheckout(r) == req[r].op = "checkout_real_transaction"

CheckoutSent(r) == HasCall(sent[r], "POST /transactions/{id}/checkout")

\* C8: checkout_real_transaction sends the backend checkout only when the
\* fetched transaction's buyer_id is the token's subject; any other caller
\* is answered 403 and neither the checkout nor the listing delete is sent.
C8_CheckoutOnlyByBuyer ==
    \A r \in DOMAIN req :
       IsCheckout(r) =>
          /\ CheckoutSent(r) =>
                /\ req[r].tx # None
                /\ req[r].tx[1].data.buyer_id = req[r].claims.sub
          /\ (/\ req[r].pc = "done"
              /\ req[r].tx # None
              /\ req[r].tx[1].data.buyer_id # req[r].claims.sub) =>
                /\ req[r].status = 403
                /\ ~CheckoutSent(r)
                /\ ~HasCall(sent[r], "DELETE /items/{id}")
                /\ txs[req[r].tx_id].status = "pending"

\* another user than the buyer asked for the checkout and was answered 403
C8_Witness ==
    \E r \in DOMAIN req :
       /\ IsCheckout(r)
       /\ req[r].pc = "done"
       /\ req[r].tx # None
       /\ ParseUUID(req[r].tx[1].data.buyer_id) # ParseUUID(req[r].claims.sub)
       /\ req[r].status = 403

\* C9: the listing delete is sent only after the backend checkout
\* succeeded, and once the checkout succeeded the request is answered 200
\* with the checkout result, whatever the delete's outcome.
C9_CleanupIsBestEffort ==
    \A r \in DOMAIN req :
       IsCheckout(r) =>
          /\ HasCall(sent[r], "DELETE /items/{id}") =>
                /\ CheckoutSent(r)
                /\ txs[req[r].tx_id].status = "paid"
          /\ (req[r].pc = "done" /\ CheckoutSent(r) /\ txs[req[r].tx_id].status = "paid") =>
                /\ req[r].status = 200
                /\ req[r].body = Some(txs[req[r].tx_id])

\* the checkout succeeded, the listing delete failed, the answer is 200
C9_Witness ==
    \E r \in DOMAIN req :
       /\ IsCheckout(r)
       /\ req[r].pc = "done"
       /\ req[r].del_out \in {"err", "fail"}
       /\ req[r].status = 200

IsProfile(r) == req[r].op = "get_current_user_profile"

\* C10: get_user_with_address fails with 404 when the user call fails; for a
\* user the backend returned it answers the user with address none when the
\* address call failed, and with the first address of the list when the
\* call succeeded with a non-empty list.
C10_ProfileToleratesAddressFailure ==
    \A r \in DOMAIN req :
       (IsProfile(r) /\ req[r].pc = "done") =>
          LET p == req[r].prof
              u == p.user_id
          IN
          /\ p.user_failed => (req[r].status = 404 /\ req[r].body = None)
          /\ u \notin users => p.user_failed
          /\ ~p.user_failed =>
                /\ req[r].status = 200
                /\ req[r].body # None
                /\ req[r].body[1].user = UserRecord(u)
                /\ p.addr_failed => req[r].body[1].address = None
                /\ (~p.addr_failed /\ Len(addresses[u]) > 0) =>
                      req[r].body[1].address = Some(addresses[u][1])

\* the address call failed for a user who has addresses, and the profile
\* was returned without an address
C10_Witness ==
    \E r \in DOMAIN req :
       /\ IsProfile(r)
       /\ req[r].pc = "done"
       /\ req[r].prof.addr_failed
       /\ Len(addresses[req[r].prof.user_id]) > 1
       /\ req[r].status = 200
       /\ req[r].body[1].address = None

-----------------------------------------------------------------------------
\* C11: a login whose lookup by address is answered not-found and that
\* completes sends exactly one account creation, with the placeholder phone
\* "0000000000" and the role "user"; the backend then holds exactly one
\* account for the address, and the returned token decodes to that account's
\* identifier as subject and to that account's role.

IsLogin(r) == req[r].op = "login_with_google"

CreatedByLogin(r) ==
    /\ IsLogin(r)
    /\ req[r].pc = "done"
    /\ req[r].res = 404
    /\ req[r].status = 200

C11_LoginCreatesAccount ==
    \A r \in Reqs :
        CreatedByLogin(r) =>
            LET mine == {k \in DOMAIN accounts :
                            accounts[k].email = req[r].login.email}
                posted == {x \in BagToSet(sent[r]) : x.call = "POST /users"}
                decoded == VerifyJwt(req[r].body[1].jwt, req[r].now)
            IN  /\ CallCount(sent[r], "POST /users") = 1
                /\ \A x \in posted : /\ x.data.phone = "0000000000"
                                     /\ x.data.role = "user"
                                     /\ x.data.email = req[r].login.email
                /\ Cardinality(mine) = 1
                /\ \A k \in mine :
                    /\ accounts[k].phone = "0000000000"
                    /\ accounts[k].role = "user"
                    /\ req[r].body[1].user.id = accounts[k].id
                    /\ decoded # None
                    /\ ParseUUID(decoded[1].sub) = accounts[k].id
                    /\ decoded[1].role = accounts[k].role

C11_Witness ==
    \E r \in Reqs :
        /\ CreatedByLogin(r)
        /\ Len(accounts) > 1
        /\ VerifyJwt(req[r].body[1].jwt, req[r].now) # None

-----------------------------------------------------------------------------
\* C12: after a successful item creation through the gateway, the created
\* item's id is a key of ITEM_SELLER_MAP and the map gives the seller id
\* that was supplied at creation.

IsCreate(r) == req[r].op = "create_item_from_frontend"

ItemCreated(r) ==
    /\ IsCreate(r)
    /\ req[r].pc = "done"
    /\ req[r].status = 200

C12_CreatedItemIsMapped ==
    \A r \in {1} :
        ItemCreated(r) =>
            /\ req[r].body[1].id \in DOMAIN ITEM_SELLER_MAP
            /\ ITEM_SELLER_MAP[req[r].body[1].id] =
                  ParseUUID(req[r].form.seller_id)

-----------------------------------------------------------------------------
\* C13: the seller the gateway resolves for an item is the owner on the
\* backend's record when the record carries one, otherwise the seller the
\* map holds for the item id, and unknown only when there is neither; here
\* for every element a listing returns.

ResolvedSeller(data) ==
    IF data.owner_user_id # None THEN Some(ParseUUID(data.owner_user_id[1]))
    ELSE MapGet(ITEM_SELLER_MAP, data.id)

Listed(r) ==
    /\ req[r].op = "list_items"
    /\ req[r].pc = "done"
    /\ req[r].ret # None

C13_SellerResolution ==
    \A r \in {1} :
        Listed(r) =>
            \A k \in DOMAIN req[r].ret[1] :
                LET e == req[r].ret[1][k] IN
                e.seller_id = ResolvedSeller(items[e.id][1])

-----------------------------------------------------------------------------
\* C14: on the admin routes a caller whose verified role is not "admin" is
\* answered 403 and no call reaches the Listing backend for the request,
\* neither the item fetch nor the DELETE; a DELETE through the admin route
\* has been sent only for a caller whose role is "admin".

OnAdminRoute(r) ==
    /\ req[r].op \in AdminOps
    /\ req[r].pc \notin {"auth", "rejected"}

C14_AdminGate ==
    \A r \in {1} :
        OnAdminRoute(r) =>
            /\ req[r].claims.role # "admin" =>
                  /\ sent[r] = EmptyBag
                  /\ req[r].pc = "done" => req[r].status = 403
            /\ HasCall(sent[r], "DELETE /items/{id}") =>
                  req[r].claims.role = "admin"

C14_Witness ==
    \E r \in {1} :
        /\ OnAdminRoute(r)
        /\ req[r].op = "admin_delete_item"
        /\ req[r].claims.role # "admin"
        /\ items[req[r].item_id] # None
        /\ req[r].pc = "done" /\ req[r].status = 403

-----------------------------------------------------------------------------
\* C15: the handler of a protected route is entered only with a token that
\* carries the key's signature over its payload and whose expiry has not
\* passed; every request whose token is refused, be it expired, forged or no
\* token at all, is answered with status 401 and the same detail, and no
\* backend call has been sent for it.

ValidToken(token, now) ==
    /\ Len(token) = 2
    /\ token[2].key = SECRET_KEY
    /\ token[2].over = token[1]
    /\ token[1].exp > now

Refused(r) == req[r].pc = "rejected"

RefusedUniformly(r) ==
    /\ req[r].status = 401
    /\ req[r].detail = "Invalid or expired token"
    /\ sent[r] = EmptyBag
    /\ ~ValidToken(req[r].token, req[r].now)

C15_TokenVerification ==
    [][\A r \in {1} :
          /\ (req[r].pc = "auth" /\ req'[r].pc \notin {"auth", "rejected"})
                => ValidToken(req[r].token, req[r].now)
          /\ (req[r].pc = "auth" /\ req'[r].pc = "rejected")
                => /\ req'[r].status = 401
                   /\ req'[r].detail = "Invalid or expired token"
                   /\ ~ValidToken(req[r].token, req[r].now)
          /\ (req[r].pc = "rejected")
                => /\ req'[r] = req[r]
                   /\ sent'[r] = EmptyBag]_vars

\* a refused request to the admin delete whose token had its role rewritten
\* to "admin" after signing and has not expired
C15_Witness ==
    \E r \in {1} :
        /\ Refused(r) /\ RefusedUniformly(r)
        /\ req[r].op = "admin_delete_item"
        /\ Len(req[r].token) = 2
        /\ req[r].token[1].role = "admin"
        /\ req[r].token[2].key = SECRET_KEY
        /\ req[r].token[1].exp > req[r].now

-----------------------------------------------------------------------------
\* C16: a wallet is created with balance zero and every deposit that
\* succeeds raises the balance by exactly the decimal amount the client
\* sent, counted in cents: the balance of a user's wallet is the sum of the
\* amounts of that user's answered deposits, so that two deposits of 10.10
\* by a user who had no wallet leave 20.20.

\* the value of a Decimal in cents
ValueCents(d) == d.coef * Pow10(2 - d.places)

Deposited(r, u) ==
    /\ req[r].op = "deposit_money"
    /\ req[r].pc = "done"
    /\ req[r].status = 200
    /\ ParseUUID(req[r].claims.sub) = u

RECURSIVE TotalDeposited(_, _)
TotalDeposited(S, u) ==
    IF S = {} THEN 0
    ELSE LET r == CHOOSE x \in S : TRUE IN
         (IF Deposited(r, u) THEN ValueCents(req[r].payload.amount) ELSE 0)
            + TotalDeposited(S \ {r}, u)

C16_DepositIsExact ==
    /\ \A k \in DOMAIN wallets :
          wallets[k].balance = TotalDeposited(Deposits, wallets[k].user_id)
    /\ \A r \in Deposits : \A u \in Users :
          Deposited(r, u) =>
             /\ WalletCount(u) = 1
             /\ req[r].body[1].user_id = u

C16_Witness ==
    \E u \in Users :
        /\ Deposited(1, u) /\ Deposited(2, u)
        /\ req[1].payload.amount = [coef |-> 1010, places |-> 2]
        /\ req[2].payload.amount = [coef |-> 1010, places |-> 2]
        /\ HasCall(sent[1], "POST /wallets") \/ HasCall(sent[2], "POST /wallets")
        /\ \E k \in DOMAIN wallets :
              wallets[k].user_id = u /\ wallets[k].balance = 2020

-----------------------------------------------------------------------------
\* C17: when the wallet create was answered with the conflict status and
\* the re-query after it found no wallet, for the buyer or for the seller of
\* a purchase by another user than the seller, the operation does not
\* complete normally: no POST /transactions is sent and the request is
\* answered with an error.

Unprovisioned(e) == e.pc = "done" /\ e.unprovisioned

C17_ProvisioningFailureReported ==
    \A r \in DOMAIN req :
       (/\ IsTx(r)
        /\ ~SameUserBuys(r)
        /\ Unprovisioned(req[r].wb) \/ Unprovisioned(req[r].ws)) =>
          /\ ~HasCall(sent[r], "POST /transactions")
          /\ req[r].pc = "done" => req[r].status >= 400

-----------------------------------------------------------------------------
\* C18: a single-entity fetch that failed for another reason than the
\* entity being absent (an error status of the backend, a transport error
\* or a timeout) is not reported as not-found: a delete or update request
\* whose fetch of an item the backend holds failed in that way is not
\* answered 404.

FetchFaulted(r) ==
    /\ IsItemMutation(r)
    /\ req[r].pc = "done"
    /\ ~req[r].clean
    /\ items[req[r].item_id] # None
    /\ ~HasCall(sent[r], "DELETE /items/{id}")
    /\ ~HasCall(sent[r], "PATCH /items/{id}")

C18_FaultIsNotNotFound ==
    \A r \in DOMAIN req :
        FetchFaulted(r) => req[r].status # 404

-----------------------------------------------------------------------------
\* C19: when a file comes with the item creation and the upload or the
\* creation of the media record fails, the request is answered with an
\* error: it does not end as a success whose item has no media or whose
\* media record points at a placeholder URL.

MediaFailed(r) ==
    /\ IsCreate(r)
    /\ req[r].form.file # None
    /\ req[r].pc \in {"post", "done"}
    /\ \/ req[r].real_url[1].host # "storage.googleapis.com"
       \/ req[r].media_list = <<>>

C19_MediaFailureSurfaced ==
    \A r \in {1} :
        (MediaFailed(r) /\ req[r].pc = "done") => req[r].status >= 400

-----------------------------------------------------------------------------
\* C20: the price_snapshot of every submitted transaction is the override
\* the caller supplied when there is one and the price of the item as it
\* was fetched otherwise, and its title_snapshot is the name of the fetched
\* item.

C20_SnapshotFromOverrideOrItem ==
    \A r \in DOMAIN req :
        IsTx(r) =>
            \A c \in TxSent(r) :
                LET fetched == req[r].item_f.data[1]
                    override == req[r].payload.price_snapshot
                IN  /\ override # None => c.data.price_snapshot = override[1]
                    /\ override = None => c.data.price_snapshot = fetched.price
                    /\ c.data.title_snapshot = fetched.name
                    /\ \A k \in DOMAIN txs :
                          txs[k].data = c.data

C20_Witness ==
    \E r \in DOMAIN req :
        /\ IsTx(r)
        /\ req[r].status = 200
        /\ req[r].payload.price_snapshot # None
        /\ req[r].payload.price_snapshot[1] # req[r].item_f.data[1].price
        /\ \E c \in TxSent(r) :
              c.data.price_snapshot = req[r].payload.price_snapshot[1]

-----------------------------------------------------------------------------
\* C21: a login sends POST /users only when its lookup by address was
\* answered not-found; a lookup that was answered with another error status
\* or that failed in transport is followed by no account creation, and a
\* lookup that found the account is followed by none either, the token's
\* subject being the existing account's id.

C21_CreateOnlyWhenAbsent ==
    \A r \in Reqs :
        IsLogin(r) =>
            /\ HasCall(sent[r], "POST /users") => req[r].res = 404
            /\ (req[r].pc = "done" /\ req[r].res = 200) =>
                  /\ req[r].status = 200
                  /\ \E k \in DOMAIN accounts :
                        /\ accounts[k].email = req[r].login.email
                        /\ ParseUUID(req[r].body[1].jwt[1].sub) = accounts[k].id

-----------------------------------------------------------------------------
\* C22: a call of ensure_wallet_exists sends at most three backend calls:
\* the list query, at most one create, and at most one re-query, which is
\* sent only after a create; and no other backend call of a request is sent
\* a second time, whatever its outcome was.  Stated for purchases by another
\* user than the item's owner, where buyer and seller calls are told apart
\* by the user they name.

WalletCalls(r, t) ==
    [list |-> CopiesIn(Call("GET /wallets", t), sent[r]),
     create |-> CopiesIn(Call("POST /wallets", t), sent[r])]

-----------------------------------------------------------------------------
\* C23: a transaction request whose POST /transactions failed, or whose
\* item fetch failed in transport, is answered with a structured error that
\* names the backend as unavailable (502, 503 or 504), not with the
\* framework's answer to an uncaught exception.

BackendFailedTx(r) ==
    /\ IsTx(r)
    /\ req[r].pc = "done"
    /\ \/ TxSent(r) # {} /\ req[r].status # 200
       \/ req[r].item_f.exc /\ req[r].buyer.raised = 0

C23_StructuredBackendErrors ==
    \A r \in DOMAIN req :
        BackendFailedTx(r) =>
            /\ ~req[r].unhandled
            /\ req[r].status \in {502, 503, 504}

-----------------------------------------------------------------------------
\* C24: a listing of items or of users that returns has one translated
\* element for each element of the backend's collection, in the backend's
\* order; when one element cannot be translated the listing fails as a
\* whole and returns no list.

BackendCollection(r) ==
    IF req[r].op = "list_items" THEN ItemList(HeldItems)
    ELSE accounts

IsListing(r) == req[r].op \in {"list_items", "list_users"}

C24_WholeBatch ==
    \A r \in {1} :
        (IsListing(r) /\ req[r].pc = "done") =>
            LET coll == BackendCollection(r) IN
            IF req[r].ret = None THEN req[r].raised
            ELSE /\ ~req[r].raised
                 /\ Len(req[r].ret[1]) = Len(coll)
                 /\ \A k \in DOMAIN coll : req[r].ret[1][k].id = coll[k].id

\* a listing over a collection of two elements of which one cannot be
\* translated has failed
C24_Witness ==
    \E r \in {1} :
        /\ IsListing(r) /\ req[r].pc = "done"
        /\ req[r].raised
        /\ HeldItems = ItemIds
        /\ ~ItemTranslates(items[1][1])
        /\ ItemTranslates(items[2][1])

-----------------------------------------------------------------------------
\* C25: a transaction request that is rejected because the item is not
\* found, the item has no owner, or the buyer is the seller has sent no
\* wallet query, no wallet create and no seller-profile call: only the
\* buyer's profile calls and the item fetch have been sent for it.

EarlyRejected(r) ==
    /\ IsTx(r)
    /\ req[r].pc = "done"
    /\ req[r].buyer.raised = 0
    /\ ~req[r].item_f.exc
    /\ req[r].status \in {404, 422, 400}
    /\ req[r].seller.pc = "idle"

BuyerAndItemCallsOnly(r) ==
    /\ ~HasCall(sent[r], "GET /wallets")
    /\ ~HasCall(sent[r], "POST /wallets")
    /\ ~HasCall(sent[r], "POST /transactions")
    /\ CallCount(sent[r], "GET /users/{id}") = 1
    /\ CallCount(sent[r], "GET /addresses") <= 1
    /\ req[r].wb.pc = "idle" /\ req[r].ws.pc = "idle"

C25_NoWalletCallsBeforeChecks ==
    \A r \in DOMAIN req :
        /\ EarlyRejected(r) => BuyerAndItemCallsOnly(r)
        /\ (IsTx(r) /\ req[r].pc = "done" /\ req[r].buyer.raised = 0
              /\ req[r].status \in {422, 400})
             => EarlyRejected(r)
        /\ (IsTx(r) /\ req[r].pc = "done" /\ req[r].buyer.raised = 0
              /\ req[r].item_f.status # 200 /\ ~req[r].item_f.exc)
             => EarlyRejected(r) /\ req[r].status = 404

C25_Witness ==
    \E r \in DOMAIN req :
        /\ EarlyRejected(r)
        /\ req[r].status = 400
        /\ wallets = <<>>

-----------------------------------------------------------------------------
\* C26: the owner named in every POST /items that an item creation sends is
\* the user the caller's token names as subject, and so is the owner of the
\* item the backend stored for the request.

C26_OwnerIsTokenSubject ==
    \A r \in {1} :
        IsCreate(r) =>
            /\ \A c \in BagToSet(sent[r]) :
                  c.call = "POST /items" =>
                     ParseUUID(c.data.owner_user_id) = ParseUUID(req[r].claims.sub)
            /\ ItemCreated(r) =>
                  req[r].body[1].owner_user_id = Some(ParseUUID(req[r].claims.sub))

-----------------------------------------------------------------------------
\* C27: every GET /transactions of a history request carries at least one
\* of buyer_id and seller_id, each one it carries is the subject of the
\* caller's token, and buyer_id is the caller when the client gave neither;
\* a request that names another user's id is answered 403 and has sent no
\* backend call.

IsHistory(r) == req[r].op = "get_my_transactions"

NamesAnotherUser(r) ==
    \E f \in {req[r].buyer_id, req[r].seller_id} :
        f # None /\ ParseUUID(f[1]) # ParseUUID(req[r].claims.sub)

C27_OwnHistoryOnly ==
    \A r \in {1} :
        IsHistory(r) =>
            /\ \A c \in BagToSet(sent[r]) :
                  /\ c.call = "GET /transactions"
                  /\ c.data.buyer_id # None \/ c.data.seller_id # None
                  /\ c.data.buyer_id # None =>
                        c.data.buyer_id[1] = req[r].claims.sub
                  /\ c.data.seller_id # None =>
                        c.data.seller_id[1] = req[r].claims.sub
                  /\ (req[r].buyer_id = None /\ req[r].seller_id = None) =>
                        c.data.buyer_id = Some(req[r].claims.sub)
            /\ (NamesAnotherUser(r) /\ req[r].pc = "done") =>
                  /\ req[r].status = 403
                  /\ sent[r] = EmptyBag

\* the caller's own id as buyer and another user's id as seller: refused
C27_Witness ==
    \E r \in {1} :
        /\ IsHistory(r) /\ req[r].pc = "done"
        /\ req[r].buyer_id = Some(req[r].claims.sub)
        /\ NamesAnotherUser(r)
        /\ req[r].status = 403
        /\ sent[r] = EmptyBag

====
